---- MODULE Spec2Model ----
(***************************************************************************)
(* Model of src/hooks/dom/useOnClickOutside.ts.                            *)
(*                                                                         *)
(* The hook registers, from a dependency-tracked effect, one handler for   *)
(* "mousedown" and "touchstart" on the global input surface.  The handler  *)
(* dereferences elementRef.current when an event arrives and invokes the   *)
(* callback unless the event target lies in the element's subtree.         *)
(*                                                                         *)
(* The state is the React component holding the hook (mounted or not, the  *)
(* dependency list of the last effect run), the ref objects' .current      *)
(* fields, the ordered listener list of the global event target, and a     *)
(* log of what the most recent event dispatch did.                         *)
(***************************************************************************)
EXTENDS Integers, Sequences, FiniteSets

\* ---- bounds ------------------------------------------------------------
NumNodes == 4        \* nodes of the document tree
NumRefs == 2         \* distinct RefObject identities
NumCallbacks == 2    \* distinct callback identities
MaxEffectRuns == 2   \* effect runs (handler instances created) in one behaviour
MaxOther == 1        \* listeners on the global surface that are not the hook's

\* ---- the document tree -------------------------------------------------
Null == 0
Nodes == 1..NumNodes
Refs == 1..NumRefs
Callbacks == 1..NumCallbacks
EventTypes == {"mousedown", "touchstart"}

\* Node 1 is the document root; node n > 1 hangs under node n \div 2.
parentNode(n) == n \div 2

\* A RefObject<HTMLElement> holds null or an element; the document root is not
\* an HTMLElement.
Elements == Nodes \ {1}

\* Node.prototype.contains: other is node itself or one of its descendants.
RECURSIVE contains(_, _)
contains(node, other) ==
  IF other = Null THEN FALSE
  ELSE IF other = node THEN TRUE
  ELSE contains(node, parentNode(other))

VARIABLES
  mounted,         \* the component that calls the hook is mounted
  props,           \* [elementRef, callback] passed to the hook by the last render
  deps,            \* dependency list of the last effect run
  scope,           \* id of the live effect run (its handleClick instance), 0 if none
  effectRuns,      \* number of effect runs so far
  current,         \* current[r] is elementRef.current of ref object r
  listeners,       \* listener list of the global event target, in registration order
  prevProps,       \* the arguments the last change of arguments replaced (history)
  currentAtAttach, \* elementRef.current when the live effect ran (history)
  lastEvent,       \* the event dispatched by the last step, NoEvent otherwise
  calls,           \* handlers whose callback ran during that dispatch, in order
  errors,          \* errors raised during that dispatch
  observed,        \* the event as each other listener saw it during that dispatch
  pending,         \* invocations scheduled by handlers that have not run yet
  rerendered,      \* the last step was a render with unchanged arguments (history)
  twin             \* the step before the last dispatched the other event type at
                   \* the same target (history, kept by SpecPair only)

vars == <<mounted, props, deps, scope, effectRuns, current, listeners, prevProps,
          currentAtAttach, lastEvent, calls, errors, observed, pending,
          rerendered, twin>>

NoDeps == [ref |-> 0, cb |-> 0]
NoEvent == [type |-> "none", target |-> Null, defaultPrevented |-> FALSE, stopped |-> FALSE]
newEvent(type, target) ==
  [type |-> type, target |-> target, defaultPrevented |-> FALSE, stopped |-> FALSE]

\* ---- the handler -------------------------------------------------------
\* Callbacks are the caller's: those with an even identity fail (throw) when
\* invoked, the others return normally.
ThrowingCallbacks == {c \in Callbacks : c % 2 = 0}

\* One invocation callback() made by handler h while it handles event e:
\* args is the number of arguments passed.
invocation(h, e) == [id |-> h.id, ref |-> h.ref, cb |-> h.cb, args |-> 0, event |-> e]

\* What the invocation raises into its caller.
raised(h) == IF h.cb \in ThrowingCallbacks THEN <<"CallbackError">> ELSE <<>>

\* Mutant: the negation is lost, so the callback runs for inside events.
handleClickNoNegation(h, e) ==
  LET el == current[h.ref]
      inside == IF el = Null THEN FALSE ELSE contains(el, e.target)
  IN  [calls |-> IF inside THEN <<invocation(h, e)>> ELSE <<>>,
       deferred |-> <<>>,
       errors |-> IF inside THEN raised(h) ELSE <<>>,
       event |-> e]

\* Mutant: plain member access instead of ?. , a null element raises TypeError.
handleClickNoOptionalChain(h, e) ==
  LET el == current[h.ref]
  IN  IF el = Null
      THEN [calls |-> <<>>, deferred |-> <<>>, errors |-> <<"TypeError">>, event |-> e]
      ELSE [calls |-> IF ~contains(el, e.target) THEN <<invocation(h, e)>> ELSE <<>>,
            deferred |-> <<>>,
            errors |-> IF ~contains(el, e.target) THEN raised(h) ELSE <<>>,
            event |-> e]

\* Mutant: the element is read once when the effect runs, not per event.
handleClickCapturedElement(h, e) ==
  LET el == currentAtAttach
      inside == IF el = Null THEN FALSE ELSE contains(el, e.target)
  IN  [calls |-> IF ~inside THEN <<invocation(h, e)>> ELSE <<>>,
       deferred |-> <<>>,
       errors |-> IF ~inside THEN raised(h) ELSE <<>>,
       event |-> e]

\* Mutant: an outside event is swallowed after the callback ran.
handleClickStopsEvent(h, e) ==
  LET el == current[h.ref]
      inside == IF el = Null THEN FALSE ELSE contains(el, e.target)
  IN  [calls |-> IF ~inside THEN <<invocation(h, e)>> ELSE <<>>,
       deferred |-> <<>>,
       errors |-> IF ~inside THEN raised(h) ELSE <<>>,
       event |-> IF ~inside THEN [e EXCEPT !.stopped = TRUE] ELSE e]

\* Mutant: the callback is scheduled (setTimeout(callback)) instead of called.
handleClickDeferred(h, e) ==
  LET el == current[h.ref]
      inside == IF el = Null THEN FALSE ELSE contains(el, e.target)
  IN  [calls |-> <<>>,
       deferred |-> IF ~inside THEN <<invocation(h, e)>> ELSE <<>>,
       errors |-> <<>>,
       event |-> e]

\* Mutant: the callback is wrapped in try/catch and its failure swallowed.
handleClickCatches(h, e) ==
  LET el == current[h.ref]
      inside == IF el = Null THEN FALSE ELSE contains(el, e.target)
  IN  [calls |-> IF ~inside THEN <<invocation(h, e)>> ELSE <<>>,
       deferred |-> <<>>,
       errors |-> <<>>,
       event |-> e]

\* Mutant: a touchstart invokes the callback without the containment test.
handleClickTouchUnchecked(h, e) ==
  LET el == current[h.ref]
      inside == IF el = Null \/ e.type = "touchstart" THEN FALSE ELSE contains(el, e.target)
  IN  [calls |-> IF ~inside THEN <<invocation(h, e)>> ELSE <<>>,
       deferred |-> <<>>,
       errors |-> IF ~inside THEN raised(h) ELSE <<>>,
       event |-> e]

\* handleClick of the effect run h (closure over h.ref and h.cb) on event e.
\* elementRef.current?.contains(target) is undefined for a null element, and
\* !undefined is true.  The callback is called directly, with no argument and
\* outside any try block: what it raises leaves the handler.  Nothing is
\* scheduled for later and the event is left as it came.
handleClick(h, e) ==
  LET el == current[h.ref]
      inside == IF el = Null THEN FALSE ELSE contains(el, e.target)
  IN  [calls |-> IF ~inside THEN <<invocation(h, e)>> ELSE <<>>,
       deferred |-> <<>>,
       errors |-> IF ~inside THEN raised(h) ELSE <<>>,
       event |-> e]

\* ---- listener registration --------------------------------------------
isHook(l) == l.owner = "hook"
isOther(l) == l.owner = "other"
hookListeners == SelectSeq(listeners, isHook)
otherListeners == SelectSeq(listeners, isOther)

\* Registers handler h for events of the given type, within the scope of the
\* effect run h.id.
useEventListener(ls, type, h) ==
  Append(ls, [owner |-> "hook", type |-> type, id |-> h.id, ref |-> h.ref, cb |-> h.cb])

\* Mutant: the release removes the scope's mousedown listener only.
removeScopedListenersMouseOnly(ls, id) ==
  LET keep(l) == ~(l.owner = "hook" /\ l.id = id /\ l.type = "mousedown")
  IN  SelectSeq(ls, keep)

\* Release of the scope id: the listeners registered within it are removed.
removeScopedListeners(ls, id) ==
  LET keep(l) == ~(l.owner = "hook" /\ l.id = id)
  IN  SelectSeq(ls, keep)

\* Mutant: only the mousedown listener is registered.
effectMouseOnly(ls, ref, cb, id) ==
  LET h == [id |-> id, ref |-> ref, cb |-> cb]
  IN  useEventListener(ls, "mousedown", h)

\* Mutant: mousedown is registered twice, touchstart never.
effectMouseTwice(ls, ref, cb, id) ==
  LET h == [id |-> id, ref |-> ref, cb |-> cb]
  IN  useEventListener(useEventListener(ls, "mousedown", h), "mousedown", h)

\* The effect body: one handleClick instance, registered for both event types.
effect(ls, ref, cb, id) ==
  LET h == [id |-> id, ref |-> ref, cb |-> cb]
  IN  useEventListener(useEventListener(ls, "mousedown", h), "touchstart", h)

\* Mutant: the effect has no dependency list and runs after every render.
depsChangedAlways(prev, ref, cb) == TRUE

\* Mutant: the dependency list is [elementRef] only.
depsChangedRefOnly(prev, ref, cb) == prev.ref # ref

\* The dependency list [elementRef, callback] is compared by identity.
depsChanged(prev, ref, cb) == prev.ref # ref \/ prev.cb # cb

\* The log describes the last step only: every step that is not a dispatch
\* clears it.
ClearLog ==
  /\ lastEvent' = NoEvent
  /\ calls' = <<>>
  /\ errors' = <<>>
  /\ observed' = <<>>
  /\ twin' = FALSE

Init ==
  /\ mounted = FALSE
  /\ props = NoDeps
  /\ deps = NoDeps
  /\ scope = 0
  /\ effectRuns = 0
  /\ current = [r \in Refs |-> Null]
  /\ listeners = <<>>
  /\ prevProps = NoDeps
  /\ currentAtAttach = Null
  /\ lastEvent = NoEvent
  /\ calls = <<>>
  /\ errors = <<>>
  /\ observed = <<>>
  /\ pending = <<>>
  /\ rerendered = FALSE
  /\ twin = FALSE

\* ---- component lifecycle ----------------------------------------------
\* The component mounts with useOnClickOutside(ref, cb); the effect runs.
Mount(ref, cb) ==
  /\ ~mounted
  /\ effectRuns < MaxEffectRuns
  /\ mounted' = TRUE
  /\ props' = [ref |-> ref, cb |-> cb]
  /\ deps' = [ref |-> ref, cb |-> cb]
  /\ effectRuns' = effectRuns + 1
  /\ scope' = effectRuns + 1
  /\ listeners' = effect(listeners, ref, cb, effectRuns + 1)
  /\ prevProps' = NoDeps
  /\ currentAtAttach' = current[ref]
  /\ rerendered' = FALSE
  /\ ClearLog
  /\ UNCHANGED <<current, pending>>

\* The component re-renders with useOnClickOutside(ref, cb).  If a dependency
\* changed, the previous effect run is released and the effect runs again
\* with the arguments of this render; otherwise the effect is skipped.
Render(ref, cb) ==
  /\ mounted
  /\ props' = [ref |-> ref, cb |-> cb]
  /\ prevProps' = IF props # [ref |-> ref, cb |-> cb] THEN props ELSE prevProps
  /\ IF depsChanged(deps, ref, cb)
     THEN /\ effectRuns < MaxEffectRuns
          /\ deps' = [ref |-> ref, cb |-> cb]
          /\ effectRuns' = effectRuns + 1
          /\ scope' = effectRuns + 1
          /\ listeners' = effect(removeScopedListeners(listeners, scope), ref, cb, effectRuns + 1)
          /\ currentAtAttach' = current[ref]
     ELSE UNCHANGED <<deps, effectRuns, scope, listeners, currentAtAttach>>
  /\ rerendered' = (props = [ref |-> ref, cb |-> cb])
  /\ ClearLog
  /\ UNCHANGED <<mounted, current, pending>>

\* The component unmounts; the live effect run is released.
Unmount ==
  /\ mounted
  /\ mounted' = FALSE
  /\ props' = NoDeps
  /\ deps' = NoDeps
  /\ scope' = 0
  /\ listeners' = removeScopedListeners(listeners, scope)
  /\ prevProps' = NoDeps
  /\ currentAtAttach' = Null
  /\ rerendered' = FALSE
  /\ ClearLog
  /\ UNCHANGED <<effectRuns, current, pending>>

\* The owner of the ref object assigns elementRef.current (an element is
\* attached, replaced or detached).  No render of the hook is involved.
SetCurrent(ref, el) ==
  /\ current[ref] # el
  /\ current' = [current EXCEPT ![ref] = el]
  /\ rerendered' = FALSE
  /\ ClearLog
  /\ UNCHANGED <<mounted, props, deps, scope, effectRuns, listeners, prevProps,
                 currentAtAttach, pending>>

\* ---- the rest of the page ---------------------------------------------
\* Some other code registers a listener of its own on the global surface.
AddOtherListener(type) ==
  /\ Len(otherListeners) < MaxOther
  /\ listeners' = Append(listeners, [owner |-> "other", type |-> type, id |-> 0, ref |-> 0, cb |-> 0])
  /\ rerendered' = FALSE
  /\ ClearLog
  /\ UNCHANGED <<mounted, props, deps, scope, effectRuns, current, prevProps,
                 currentAtAttach, pending>>

\* ... and removes its oldest one.
RemoveOtherListener ==
  /\ Len(otherListeners) > 0
  /\ LET i == CHOOSE k \in DOMAIN listeners :
                /\ isOther(listeners[k])
                /\ \A j \in 1..(k - 1) : isHook(listeners[j])
     IN  listeners' = SubSeq(listeners, 1, i - 1) \o SubSeq(listeners, i + 1, Len(listeners))
  /\ rerendered' = FALSE
  /\ ClearLog
  /\ UNCHANGED <<mounted, props, deps, scope, effectRuns, current, prevProps,
                 currentAtAttach, pending>>

\* ---- event dispatch ----------------------------------------------------
\* The listeners of the event's type run in registration order, each on the
\* event as the previous ones left it; a stopped event reaches no further
\* listener.  What a listener raises is reported and does not keep the later
\* listeners from running.
RECURSIVE deliver(_, _)
deliver(ls, acc) ==
  IF ls = <<>> THEN acc
  ELSE LET l == Head(ls) IN
       IF l.type # acc.event.type \/ acc.event.stopped
       THEN deliver(Tail(ls), acc)
       ELSE IF isHook(l)
       THEN LET r == handleClick([id |-> l.id, ref |-> l.ref, cb |-> l.cb], acc.event)
            IN  deliver(Tail(ls),
                        [calls |-> acc.calls \o r.calls,
                         deferred |-> acc.deferred \o r.deferred,
                         errors |-> acc.errors \o r.errors,
                         observed |-> acc.observed,
                         event |-> r.event])
       ELSE deliver(Tail(ls), [acc EXCEPT !.observed = Append(acc.observed, acc.event)])

\* A mousedown or touchstart whose target is the given node reaches the
\* global surface.  Invocations scheduled earlier run first, then the
\* listeners.
dispatch(type, target) ==
  LET e == newEvent(type, target)
      r == deliver(listeners, [calls |-> <<>>, deferred |-> <<>>, errors |-> <<>>,
                               observed |-> <<>>, event |-> e])
  IN  /\ lastEvent' = e
      /\ calls' = pending \o r.calls
      /\ pending' = r.deferred
      /\ errors' = r.errors
      /\ observed' = r.observed
      /\ rerendered' = FALSE
      /\ UNCHANGED <<mounted, props, deps, scope, effectRuns, current, listeners,
                     prevProps, currentAtAttach>>

DispatchEvent(type, target) ==
  /\ dispatch(type, target)
  /\ twin' = FALSE

\* The same dispatch, remembering whether it follows the dispatch of the
\* other event type at the same target.
DispatchPaired(type, target) ==
  /\ dispatch(type, target)
  /\ twin' = (lastEvent.target = target /\ lastEvent.type \in EventTypes \ {type})

Next ==
  \/ \E ref \in Refs, cb \in Callbacks : Mount(ref, cb)
  \/ \E ref \in Refs, cb \in Callbacks : Render(ref, cb)
  \/ Unmount
  \/ \E ref \in Refs, el \in Elements \cup {Null} : SetCurrent(ref, el)
  \/ \E type \in EventTypes : AddOtherListener(type)
  \/ RemoveOtherListener
  \/ \E type \in EventTypes, target \in Nodes : DispatchEvent(type, target)

Spec == Init /\ [][Next]_vars

\* The hook alone on the page, with the pairing of consecutive events kept.
NextPair ==
  \/ \E ref \in Refs, cb \in Callbacks : Mount(ref, cb)
  \/ \E ref \in Refs, cb \in Callbacks : Render(ref, cb)
  \/ Unmount
  \/ \E ref \in Refs, el \in Elements \cup {Null} : SetCurrent(ref, el)
  \/ \E type \in EventTypes, target \in Nodes : DispatchPaired(type, target)

SpecPair == Init /\ [][NextPair]_vars

TypeOK ==
  /\ mounted \in BOOLEAN
  /\ effectRuns \in 0..MaxEffectRuns
  /\ scope \in 0..MaxEffectRuns
  /\ current \in [Refs -> Elements \cup {Null}]
  /\ rerendered \in BOOLEAN
  /\ twin \in BOOLEAN
  /\ mounted => props = deps
\* ---- properties --------------------------------------------------------
\* The subtree of a node, computed from the root down: the node and the
\* subtrees of its children.
children(n) == {c \in Nodes : c > 1 /\ parentNode(c) = n}
RECURSIVE subtree(_)
subtree(n) == {n} \cup UNION {subtree(c) : c \in children(n)}

dispatched == lastEvent.type \in EventTypes
\* The element of the attached pair, and where the last event fell.
element == current[props.ref]
insideEvent == element # Null /\ lastEvent.target \in subtree(element)
outsideEvent == element # Null /\ lastEvent.target \notin subtree(element)
callbacksRun == [i \in DOMAIN calls |-> calls[i].cb]

\* C1: while the hook is attached with element E and callback cb, whatever
\* mounts, re-renders and dependency changes came before, an event whose
\* target is neither E nor a descendant of E invokes cb exactly once.
C1_OutsideInvokesOnce ==
  (mounted /\ dispatched /\ outsideEvent) => callbacksRun = <<props.cb>>

C1_Witness ==
  /\ mounted /\ dispatched /\ outsideEvent
  /\ prevProps # NoDeps
  /\ effectRuns > 1

\* C2: an event whose target is the referenced element or any descendant of
\* it, at any depth, invokes no callback.
C2_InsideInvokesNothing ==
  (mounted /\ dispatched /\ insideEvent) => calls = <<>>

C2_Witness ==
  /\ mounted /\ dispatched /\ insideEvent
  /\ lastEvent.target # element
  /\ element # 1

\* C3: after a (elementRef, callback) pair is detached, by unmount or by a
\* change of either identity, no event invokes its callback: every callback
\* an event runs belongs to the effect run that is live, bound to the
\* arguments of the last render of a mounted component.
C3_NoStaleCallback ==
  \A i \in DOMAIN calls :
    /\ mounted
    /\ calls[i].id = scope
    /\ calls[i].ref = props.ref
    /\ calls[i].cb = props.cb

C3_Witness ==
  /\ dispatched
  /\ effectRuns > 0
  /\ ~mounted \/ (prevProps # NoDeps /\ (element = Null \/ outsideEvent))

\* C4: after the owning component unmounted, no listener of the hook is
\* registered, for mousedown or for touchstart.
C4_UnmountRemovesBoth ==
  ~mounted => hookListeners = <<>>

C4_Witness ==
  /\ ~mounted
  /\ effectRuns > 0
  /\ otherListeners # <<>>

\* C5: after the callback identity changed from cb1 to cb2 with the element
\* reference unchanged, an outside event invokes cb2 and does not invoke cb1.
C5_NewCallbackInvoked ==
  ( /\ mounted /\ dispatched
    /\ prevProps # NoDeps
    /\ prevProps.ref = props.ref
    /\ prevProps.cb # props.cb
    /\ (element = Null \/ outsideEvent) )
  => ( /\ \E i \in DOMAIN calls : calls[i].cb = props.cb
       /\ \A i \in DOMAIN calls : calls[i].cb # prevProps.cb )

C5_Witness ==
  /\ mounted /\ dispatched
  /\ prevProps # NoDeps
  /\ prevProps.ref = props.ref
  /\ prevProps.cb # props.cb
  /\ outsideEvent

\* C6: while the hook is attached and elementRef.current is null, every
\* event, whatever its target, invokes the callback, and no error is raised.
C6_AbsentElementFires ==
  (mounted /\ dispatched /\ element = Null)
  => (callbacksRun = <<props.cb>> /\ \A i \in DOMAIN errors : errors[i] # "TypeError")

C6_Witness ==
  /\ mounted /\ dispatched /\ element = Null
  /\ lastEvent.target > 1

\* C7: once the component is mounted and the effect has run, the hook has
\* exactly two listeners registered, one for mousedown and one for
\* touchstart, both bound to the current (elementRef, callback) pair.
C7_TwoListeners ==
  mounted =>
    /\ Len(hookListeners) = 2
    /\ \A type \in EventTypes :
         Cardinality({i \in DOMAIN hookListeners : hookListeners[i].type = type}) = 1
    /\ \A i \in DOMAIN hookListeners :
         /\ hookListeners[i].ref = props.ref
         /\ hookListeners[i].cb = props.cb

C7_Witness ==
  /\ mounted
  /\ prevProps # NoDeps
  /\ otherListeners # <<>>

\* C8: the element reference is read when the event arrives: after
\* elementRef.current changed with no re-subscription, an event is tested
\* against the value current at that moment, so an event inside the newly
\* resolved element invokes nothing and any other event invokes the callback.
C8_DereferencedAtEventTime ==
  (mounted /\ dispatched /\ element # currentAtAttach)
  => (IF insideEvent THEN calls = <<>> ELSE callbacksRun = <<props.cb>>)

C8_Witness ==
  /\ mounted /\ dispatched
  /\ element # currentAtAttach
  /\ insideEvent
  /\ currentAtAttach = Null \/ lastEvent.target \notin subtree(currentAtAttach)

\* C9: handling an event changes no listener and no element reference and
\* leaves the event as it came: every other listener of the event's type
\* observes it, unstopped and with its default action not prevented.
othersOfType(ls, type) == SelectSeq(ls, LAMBDA l : isOther(l) /\ l.type = type)
C9_EventsPassUnchanged ==
  [][ lastEvent'.type \in EventTypes =>
        /\ listeners' = listeners
        /\ current' = current
        /\ observed' = [i \in 1..Len(othersOfType(listeners, lastEvent'.type)) |-> lastEvent']
        /\ lastEvent'.stopped = FALSE
        /\ lastEvent'.defaultPrevented = FALSE ]_vars

C9_Witness ==
  /\ mounted /\ dispatched
  /\ calls # <<>>
  /\ observed # <<>>
  /\ isOther(listeners[Len(listeners)])

\* C10: listeners never accumulate: in every reachable state the hook has
\* either no listener or the two listeners of one effect run, so at most one
\* (elementRef, callback) pair is registered and at most one listener per
\* event type.
C10_OnePairRegistered ==
  /\ Len(hookListeners) \in {0, 2}
  /\ \A i, j \in DOMAIN hookListeners :
       /\ hookListeners[i].id = hookListeners[j].id
       /\ hookListeners[i].ref = hookListeners[j].ref
       /\ hookListeners[i].cb = hookListeners[j].cb
       /\ i # j => hookListeners[i].type # hookListeners[j].type

C10_Witness ==
  /\ mounted
  /\ effectRuns > 1
  /\ Len(hookListeners) = 2

\* C11: on a change of elementRef or callback identity the listeners of the
\* previous pair are gone when those of the new pair are installed: in no
\* reachable state is a listener registered that belongs to an effect run
\* other than the live one.
C11_OldReleasedBeforeNew ==
  \A i \in DOMAIN hookListeners : hookListeners[i].id = scope

C11_Witness ==
  /\ mounted
  /\ prevProps # NoDeps
  /\ scope > 1
  /\ hookListeners # <<>>

\* C12: the callback is invoked synchronously, with no argument, inside the
\* handling of the event that triggered it: when the dispatch of an event is
\* over nothing is left scheduled, and every invocation made during it was
\* caused by that event, so invocations follow the order of the events.
C12_CallbackSynchronous ==
  /\ pending = <<>>
  /\ \A i \in DOMAIN calls :
       /\ calls[i].event = lastEvent
       /\ calls[i].args = 0

C12_Witness ==
  /\ mounted /\ dispatched
  /\ calls # <<>>
  /\ element # Null

\* C13: a failure of the callback leaves the handler uncaught, and changes
\* nothing of the registration: both listeners stay registered, and the
\* next outside event invokes the callback again.
threw(c) == c.cb \in ThrowingCallbacks
C13_CallbackFailurePropagates ==
  [][ lastEvent'.type \in EventTypes =>
        /\ errors' = [i \in 1..Len(SelectSeq(calls', threw)) |-> "CallbackError"]
        /\ errors' # <<>> =>
             /\ listeners' = listeners
             /\ mounted' => Len(SelectSeq(listeners', isHook)) = 2
        /\ (errors # <<>> /\ mounted /\ lastEvent'.target \notin subtree(current[props.ref]))
             => [i \in DOMAIN calls' |-> calls'[i].cb] = <<props.cb>> ]_vars

C13_Witness ==
  /\ mounted /\ dispatched
  /\ errors # <<>>
  /\ calls # <<>>
  /\ Len(hookListeners) = 2

\* C14: a re-render in which elementRef and callback are both the same
\* objects as before leaves the registered listeners as they are: none is
\* removed, none is added, the same handler instance stays registered.
C14_SameDepsKeepListeners ==
  [][ rerendered' =>
        /\ listeners' = listeners
        /\ scope' = scope
        /\ deps' = deps ]_vars

C14_Witness ==
  /\ rerendered
  /\ mounted
  /\ Len(hookListeners) = 2
  /\ effectRuns < MaxEffectRuns

\* C15: the decision depends on the event target and elementRef.current
\* only: a mousedown and a touchstart (or two events of one type) at the
\* same target, with the element unchanged in between, run the same
\* callbacks, whatever was dispatched before.
C15_DecisionIgnoresEventType ==
  [][ ( /\ lastEvent.type \in EventTypes
        /\ lastEvent'.type \in EventTypes
        /\ lastEvent'.target = lastEvent.target )
      => [i \in DOMAIN calls' |-> calls'[i].cb] = callbacksRun ]_vars

C15_Witness ==
  /\ twin
  /\ mounted
  /\ element # Null
====
